---- MODULE Spec2Model ----
(***************************************************************************)
(* A model of the page cache core of maridbel: the one-shot completion     *)
(* channel (crates/oneshot), the LRU-K eviction policy, the frame guards   *)
(* and the buffer pool (src/storage/buffer).                               *)
(*                                                                         *)
(* Each subsystem has its own specification over the shared variables:     *)
(*   SpecOneshot  sender / receiver halves of one-shot channels            *)
(*   SpecLRUK     the LRUKEvictionPolicy called method by method           *)
(*   SpecOneshotFair  the same, with both halves scheduled fairly          *)
(*   SpecLRUKConc the policy shared by threads, each call lock by lock     *)
(*   SpecPool     threads fetching pages through the BufferPool            *)
(*   SpecPoolIO   the same over a store whose seeks and reads may fail     *)
(*   SpecPoolFair threads fetching within the pool's capacity, scheduled   *)
(*                fairly, over a store of more pages than frames           *)
(*   SpecDisk     a client driving the DiskScheduler directly, byte by     *)
(*                byte, over a store whose operations may fail             *)
(*   SpecDiskFair the same, with a worker thread that is not starved       *)
(***************************************************************************)
EXTENDS FiniteSets, Integers, Sequences, TLC

(***************************************************************************)
(* Bounds of the model.                                                    *)
(***************************************************************************)
\* number of one-shot channels created
NumChans == 2
\* values sent are 1..MaxVal
MaxVal == 2

\* the LRU-K spec passes frame ids 0..NumPolicyFrames-1 to the policy
NumPolicyFrames == 3
\* the policy is built with k in 1..MaxK
MaxK == 2
\* record_access is called at most MaxTime times
MaxTime == 4

\* threads calling into the buffer pool
NumThreads == 2
\* pages fetched are 0..MaxPage
MaxPage == 1
\* the backing store holds the pages 0..MaxStorePage
MaxStorePage == 2
\* the pool is built with 1..PoolSize frames
PoolSize == 2
\* a thread holds at most MaxHeld guards at a time
MaxHeld == 1
\* a page is filled with one byte value in 0..MaxByte (0: the empty page)
MaxByte == 1

\* the scheduler spec works on pages of PageLen bytes (PAGE_SIZE scaled down)
PageLen == 2
\* the client of the scheduler spec submits at most MaxRequests requests
MaxRequests == 2

\* Option<T>: None is the empty tuple, Some(v) the one-element tuple
None == <<>>
Some(v) == <<v>>

VARIABLES
    \* ---- one-shot channel (crates/oneshot/src/oneshot.rs), per channel
    data,          \* the Option<T> inside the UnsafeCell: None or a value
    data_strong,   \* strong count of the Arc<UnsafeCell<Option<T>>>
    mutex,         \* holder of sync_pair.0: "free", "tx" or "rx"
    tx_pc,         \* position of the sender half
    tx_val,        \* the argument of send
    tx_ret,        \* what send returned
    rx_pc,         \* position of the receiver half
    rx_ret,        \* what recv returned
    rx_gone_at_send, \* history: the receiver was already dropped when send was called
    \* ---- LRUKEvictionPolicy (src/storage/buffer/lruk_eviction.rs)
    k,                 \* the number of historical accesses to track
    nodes_store,       \* HashMap<FrameId, LRUKNode>, a function on the tracked ids
    current_timestamp, \* the AtomicU64 counter
    poisoned,          \* the nodes_store lock was poisoned by a panic under it
    call,              \* history: the last policy call: its arguments and result
    pol,               \* per thread: the policy call it is inside, with its locals
    \* ---- BufferPool, frames and guards (src/storage/buffer), disk scheduler queue
    pool_size,         \* the size the pool was built with
    page_table,        \* HashMap<PageId, FrameId>, a function on the mapped page ids
    pt_lock,           \* holder of the page_table write lock, 0 when free
    pt_poisoned,       \* the page_table lock was poisoned by a panic under it
    free_list,         \* Vec<FrameId>
    frames,            \* per frame: pin_count, is_dirty, data
    requests_queue,    \* Vec<QueueRequest> of the disk scheduler
    worker_finished,   \* the scheduler's worker thread has returned
    disk,              \* the backing store, per page
    pc,                \* per thread: position inside get_page_read / get_page_write
    cur,               \* per thread: the locals of the fetch in progress
    held,              \* per thread: the guards it holds
    access,            \* per thread: the frame RwLock guard it holds, if any
    unparked,          \* per thread: its read has completed
    io_result,         \* per thread: the result the worker sent for its read
    aborted,           \* the process aborted (panic while unwinding)
    loaded,            \* history, per frame: the page of its latest completed load
    written,           \* history, per page: the bytes last written under a write guard
    evicted,           \* history, per page: its frame was evicted since that write
    fetched,           \* history: the page ids passed to get_page_read / get_page_write
    reads_scheduled,   \* history: the number of reads pushed to the scheduler
    \* ---- DiskScheduler driven directly (src/storage/disk/disk_scheduler.rs)
    sched_store,       \* the bytes of the backing store `reader`
    sched_frames,      \* the data of the frames handed to the scheduler
    sched_queue,       \* Vec<QueueRequest>
    sched_result,      \* per request: what the worker sent on its channel
    sched_rx,          \* per request: the state of the client's receiver half
    sched_worker,      \* "running", "finished" (returned) or "aborted"
    sched_client,      \* the client: "idle", "panicked", or the request it is pushing
    sched_last         \* history: the request the worker served last

oneshot_vars ==
    <<data, data_strong, mutex, tx_pc, tx_val, tx_ret, rx_pc, rx_ret, rx_gone_at_send>>

lruk_vars == <<k, nodes_store, current_timestamp, poisoned, call>>

pool_vars ==
    <<pool_size, page_table, pt_lock, pt_poisoned, free_list, frames, requests_queue,
      worker_finished, disk, pc, cur, held, access, unparked, io_result, aborted,
      loaded, written, evicted, fetched, reads_scheduled>>

disk_vars ==
    <<sched_store, sched_frames, sched_queue, sched_result, sched_rx, sched_worker,
      sched_client, sched_last>>

vars == <<oneshot_vars, lruk_vars, pool_vars, disk_vars, pol>>

(***************************************************************************)
(* One-shot channel                                                        *)
(***************************************************************************)
Chans == 1..NumChans
Values == 1..MaxVal

\* channel(): one Arc with two handles, an unlocked mutex, an empty cell
channel ==
    /\ data = [c \in Chans |-> None]
    /\ data_strong = [c \in Chans |-> 2]
    /\ mutex = [c \in Chans |-> "free"]
    /\ tx_pc = [c \in Chans |-> "live"]
    /\ tx_val = [c \in Chans |-> None]
    /\ tx_ret = [c \in Chans |-> "none"]
    /\ rx_pc = [c \in Chans |-> "live"]
    /\ rx_ret = [c \in Chans |-> <<"none">>]
    /\ rx_gone_at_send = [c \in Chans |-> FALSE]

\* send, line 30: mutex.lock()
SendLock(c, v) ==
    /\ tx_pc[c] = "live"
    /\ mutex[c] = "free"
    /\ mutex' = [mutex EXCEPT ![c] = "tx"]
    /\ tx_pc' = [tx_pc EXCEPT ![c] = "locked"]
    /\ tx_val' = [tx_val EXCEPT ![c] = Some(v)]
    /\ rx_gone_at_send' = [rx_gone_at_send EXCEPT ![c] = (rx_pc[c] = "dropped")]
    /\ UNCHANGED <<data, data_strong, tx_ret, rx_pc, rx_ret>>

\* Arc::try_unwrap succeeds exactly when this handle is the only one left
TryUnwrapOk(c) == data_strong[c] = 1

\* send without the try_unwrap test: it deposits even when the receiver is gone
SendBody_NoClosedCheck(c) ==
    /\ tx_pc[c] = "locked"
    /\ tx_ret' = [tx_ret EXCEPT ![c] = "Ok"]
    /\ data' = [data EXCEPT ![c] = tx_val[c]]
    /\ data_strong' = [data_strong EXCEPT ![c] = @ - 1]
    /\ tx_pc' = [tx_pc EXCEPT ![c] = "unlock"]
    /\ UNCHANGED <<mutex, tx_val, rx_pc, rx_ret, rx_gone_at_send>>

\* send, lines 32-44: try_unwrap, deposit, notify_one; the arm's binding
\* shared_data is dropped at the end of the arm, before the mutex guard
SendBody(c) ==
    /\ tx_pc[c] = "locked"
    /\ IF TryUnwrapOk(c)
       THEN /\ tx_ret' = [tx_ret EXCEPT ![c] = "Closed"]
            /\ data' = [data EXCEPT ![c] = None]
            /\ data_strong' = [data_strong EXCEPT ![c] = 0]
       ELSE /\ tx_ret' = [tx_ret EXCEPT ![c] = "Ok"]
            /\ data' = [data EXCEPT ![c] = tx_val[c]]
            /\ data_strong' = [data_strong EXCEPT ![c] = @ - 1]
    /\ tx_pc' = [tx_pc EXCEPT ![c] = "unlock"]
    /\ UNCHANGED <<mutex, tx_val, rx_pc, rx_ret, rx_gone_at_send>>

\* send, line 45: the mutex guard goes out of scope
SendUnlock(c) ==
    /\ tx_pc[c] = "unlock"
    /\ mutex' = [mutex EXCEPT ![c] = "free"]
    /\ tx_pc' = [tx_pc EXCEPT ![c] = "done"]
    /\ UNCHANGED <<data, data_strong, tx_val, tx_ret, rx_pc, rx_ret, rx_gone_at_send>>

\* drop(tx): the sender half is dropped without send (there is no Drop impl,
\* only the Arc handles are released)
DropSender(c) ==
    /\ tx_pc[c] = "live"
    /\ tx_pc' = [tx_pc EXCEPT ![c] = "dropped"]
    /\ data_strong' = [data_strong EXCEPT ![c] = @ - 1]
    /\ UNCHANGED <<data, mutex, tx_val, tx_ret, rx_pc, rx_ret, rx_gone_at_send>>

\* recv, lines 53-55: mutex.lock()
RecvLock(c) ==
    /\ rx_pc[c] = "live"
    /\ mutex[c] = "free"
    /\ mutex' = [mutex EXCEPT ![c] = "rx"]
    /\ rx_pc' = [rx_pc EXCEPT ![c] = "locked"]
    /\ UNCHANGED <<data, data_strong, tx_pc, tx_val, tx_ret, rx_ret, rx_gone_at_send>>

\* recv, lines 57-59: Ok(_) => Err(Closed), whatever the cell holds
RecvTryUnwrap(c) ==
    /\ rx_pc[c] = "locked"
    /\ IF TryUnwrapOk(c)
       THEN /\ rx_ret' = [rx_ret EXCEPT ![c] = <<"Closed">>]
            /\ data' = [data EXCEPT ![c] = None]
            /\ data_strong' = [data_strong EXCEPT ![c] = 0]
            /\ rx_pc' = [rx_pc EXCEPT ![c] = "unlock"]
       ELSE /\ rx_pc' = [rx_pc EXCEPT ![c] = "loop"]
            /\ UNCHANGED <<rx_ret, data, data_strong>>
    /\ UNCHANGED <<mutex, tx_pc, tx_val, tx_ret, rx_gone_at_send>>

\* recv, lines 65-69: data.is_none() => condvar.wait releases the mutex
RecvWait(c) ==
    /\ rx_pc[c] = "loop"
    /\ data[c] = None
    /\ mutex' = [mutex EXCEPT ![c] = "free"]
    /\ rx_pc' = [rx_pc EXCEPT ![c] = "waiting"]
    /\ UNCHANGED <<data, data_strong, tx_pc, tx_val, tx_ret, rx_ret, rx_gone_at_send>>

\* condvar.wait returns (notified or spuriously) with the mutex re-acquired
RecvWake(c) ==
    /\ rx_pc[c] = "waiting"
    /\ mutex[c] = "free"
    /\ mutex' = [mutex EXCEPT ![c] = "rx"]
    /\ rx_pc' = [rx_pc EXCEPT ![c] = "loop"]
    /\ UNCHANGED <<data, data_strong, tx_pc, tx_val, tx_ret, rx_ret, rx_gone_at_send>>

\* recv, line 70: Ok(data.take()), then shared_data is dropped
RecvTake(c) ==
    /\ rx_pc[c] = "loop"
    /\ data[c] # None
    /\ rx_ret' = [rx_ret EXCEPT ![c] = <<"Ok", data[c][1]>>]
    /\ data' = [data EXCEPT ![c] = None]
    /\ data_strong' = [data_strong EXCEPT ![c] = @ - 1]
    /\ rx_pc' = [rx_pc EXCEPT ![c] = "unlock"]
    /\ UNCHANGED <<mutex, tx_pc, tx_val, tx_ret, rx_gone_at_send>>

\* recv, line 74: the mutex guard goes out of scope
RecvUnlock(c) ==
    /\ rx_pc[c] = "unlock"
    /\ mutex' = [mutex EXCEPT ![c] = "free"]
    /\ rx_pc' = [rx_pc EXCEPT ![c] = "done"]
    /\ UNCHANGED <<data, data_strong, tx_pc, tx_val, tx_ret, rx_ret, rx_gone_at_send>>

\* drop(rx): the receiver half is dropped without recv
DropReceiver(c) ==
    /\ rx_pc[c] = "live"
    /\ rx_pc' = [rx_pc EXCEPT ![c] = "dropped"]
    /\ data_strong' = [data_strong EXCEPT ![c] = @ - 1]
    /\ UNCHANGED <<data, mutex, tx_pc, tx_val, tx_ret, rx_ret, rx_gone_at_send>>

(***************************************************************************)
(* LRU-K eviction policy                                                   *)
(***************************************************************************)
PolicyFrames == 0..(NumPolicyFrames - 1)

\* u64::MAX; every distance the model reaches is far below it
BACKWARD_DISTANCE_INF == 2147483647

Last(h) == h[Len(h)]

\* the node record_access inserts for an unknown frame (lines 132-136)
NewNode_Evictable(frame_id) ==
    [frame_id |-> frame_id, is_evictable |-> TRUE, history |-> <<>>]
NewNode(frame_id) == [frame_id |-> frame_id, is_evictable |-> FALSE, history |-> <<>>]

Tracked(nodes, frame_id) == frame_id \in DOMAIN nodes

\* HashMap::insert / HashMap::remove on the node map
MapInsert(nodes, frame_id, node) ==
    [f \in DOMAIN nodes \cup {frame_id} |-> IF f = frame_id THEN node ELSE nodes[f]]
MapRemove_Nothing(nodes, frame_id) == nodes
MapRemove(nodes, frame_id) ==
    [f \in DOMAIN nodes \ {frame_id} |-> nodes[f]]

\* size(), lines 39-42: the number of evictable nodes
size(nodes) == Cardinality({f \in DOMAIN nodes : nodes[f].is_evictable})

\* record_access, lines 132-141, on the node map, with now = next_timestamp()
PushAccess_NoDrop(node, now, K) ==
    [node EXCEPT !.history = Append(node.history, now)]
PushAccess(node, now, K) ==
    LET h == IF Len(node.history) = K THEN Tail(node.history) ELSE node.history
    IN  [node EXCEPT !.history = Append(h, now)]

record_access(nodes, frame_id, now, K) ==
    LET node == IF Tracked(nodes, frame_id) THEN nodes[frame_id] ELSE NewNode(frame_id)
    IN  MapInsert(nodes, frame_id, PushAccess(node, now, K))

\* set_evictable, line 150, on a tracked frame
set_evictable(nodes, frame_id, is_evictable) ==
    [nodes EXCEPT ![frame_id].is_evictable = is_evictable]

\* set_evictable that inserts a default node for an unknown frame
SetEvictable_OrInsert(frame_id, is_evictable) ==
    /\ ~poisoned
    /\ nodes_store' =
          IF Tracked(nodes_store, frame_id)
          THEN set_evictable(nodes_store, frame_id, is_evictable)
          ELSE MapInsert(nodes_store, frame_id,
                         [NewNode(frame_id) EXCEPT !.is_evictable = is_evictable])
    /\ call' = [op |-> "set_evictable", frame_id |-> frame_id, flag |-> is_evictable,
                outcome |-> "ok", ret |-> None]
    /\ UNCHANGED <<k, current_timestamp, poisoned>>

\* current_timestamp - last_access on u64, line 103: below zero the
\* subtraction wraps around (a build with overflow checks panics instead)
WrappingSub(a, b) ==
    IF a >= b THEN a - b ELSE BACKWARD_DISTANCE_INF - (b - a) + 1

\* the locals of evict before the loop, lines 79-81
ScanStart == [frame_to_evict |-> None, least_recent_access |-> 0,
              max_backward_distance |-> 0]

\* one iteration of evict's loop that keeps the first +inf node it meets
ScanVisit_NoTieBreak(acc, frame, now, K) ==
    IF ~frame.is_evictable THEN acc
    ELSE LET last_access == Last(frame.history)
             less_than_k_accesses == Len(frame.history) < K
         IN  IF acc.max_backward_distance = BACKWARD_DISTANCE_INF
             THEN acc
             ELSE IF less_than_k_accesses
             THEN [frame_to_evict |-> Some(frame.frame_id),
                   least_recent_access |-> last_access,
                   max_backward_distance |-> BACKWARD_DISTANCE_INF]
             ELSE LET backward_distance == WrappingSub(now, last_access)
                  IN  IF backward_distance > acc.max_backward_distance
                      THEN [acc EXCEPT !.max_backward_distance = backward_distance,
                                       !.frame_to_evict = Some(frame.frame_id)]
                      ELSE acc

\* one iteration of evict's loop that does not skip non-evictable nodes
ScanVisit_IgnoreFlag(acc, frame, now, K) ==
    LET last_access == Last(frame.history)
        less_than_k_accesses == Len(frame.history) < K
    IN  IF acc.max_backward_distance = BACKWARD_DISTANCE_INF
        THEN IF less_than_k_accesses /\ last_access < acc.least_recent_access
             THEN [acc EXCEPT !.least_recent_access = last_access,
                              !.frame_to_evict = Some(frame.frame_id)]
             ELSE acc
        ELSE IF less_than_k_accesses
        THEN [frame_to_evict |-> Some(frame.frame_id),
              least_recent_access |-> last_access,
              max_backward_distance |-> BACKWARD_DISTANCE_INF]
        ELSE LET backward_distance == WrappingSub(now, last_access)
             IN  IF backward_distance > acc.max_backward_distance
                 THEN [acc EXCEPT !.max_backward_distance = backward_distance,
                                  !.frame_to_evict = Some(frame.frame_id)]
                 ELSE acc

\* one iteration of evict's loop, lines 84-110
ScanVisit(acc, frame, now, K) ==
    IF ~frame.is_evictable THEN acc
    ELSE LET last_access == Last(frame.history)
             less_than_k_accesses == Len(frame.history) < K
         IN  IF acc.max_backward_distance = BACKWARD_DISTANCE_INF
             THEN IF less_than_k_accesses /\ last_access < acc.least_recent_access
                  THEN [acc EXCEPT !.least_recent_access = last_access,
                                   !.frame_to_evict = Some(frame.frame_id)]
                  ELSE acc
             ELSE IF less_than_k_accesses
             THEN [frame_to_evict |-> Some(frame.frame_id),
                   least_recent_access |-> last_access,
                   max_backward_distance |-> BACKWARD_DISTANCE_INF]
             ELSE LET backward_distance == WrappingSub(now, last_access)
                  IN  IF backward_distance > acc.max_backward_distance
                      THEN [acc EXCEPT !.max_backward_distance = backward_distance,
                                       !.frame_to_evict = Some(frame.frame_id)]
                      ELSE acc

\* the loop of evict over the map's values in the order the HashMap yields them
RECURSIVE Scan(_, _, _, _, _)
Scan(acc, nodes, order, now, K) ==
    IF order = <<>> THEN acc
    ELSE Scan(ScanVisit(acc, nodes[Head(order)], now, K), nodes, Tail(order), now, K)

\* the assertion of line 85, for every node the loop visits
HistoryAssert(nodes, K) ==
    \A f \in DOMAIN nodes : nodes[f].history # <<>> /\ Len(nodes[f].history) <= K

\* the orders in which a HashMap may yield its entries: any
RECURSIVE Orders(_)
Orders(S) ==
    IF S = {} THEN {<<>>}
    ELSE UNION {{<<x>> \o o : o \in Orders(S \ {x})} : x \in S}

\* evict, lines 77-119, as a function: the victim, if any
evict(nodes, order, now, K) == Scan(ScanStart, nodes, order, now, K).frame_to_evict

\* a thread that is not inside a policy call
PolIdle == [op |-> "idle", frame_id |-> 0, now |-> 0, victim |-> None]

\* LRUKEvictionPolicy::new, lines 26-35
LRUKEvictionPolicy_new(K) ==
    /\ K > 0
    /\ k = K
    /\ nodes_store = <<>>
    /\ current_timestamp = 0
    /\ poisoned = FALSE
    /\ call = [op |-> "new", frame_id |-> 0, flag |-> FALSE, outcome |-> "ok",
               ret |-> None]
    /\ pol = [t \in 1..NumThreads |-> PolIdle]

\* record_access(frame_id, _), lines 127-142
RecordAccess(frame_id) ==
    /\ ~poisoned
    /\ current_timestamp < MaxTime
    /\ current_timestamp' = current_timestamp + 1
    /\ nodes_store' = record_access(nodes_store, frame_id, current_timestamp, k)
    /\ call' = [op |-> "record_access", frame_id |-> frame_id, flag |-> FALSE,
                outcome |-> "ok", ret |-> None]
    /\ UNCHANGED <<k, poisoned>>

\* set_evictable(frame_id, is_evictable), lines 145-151: an unknown frame
\* panics with the write lock held, which poisons the lock
SetEvictable(frame_id, is_evictable) ==
    /\ ~poisoned
    /\ IF Tracked(nodes_store, frame_id)
       THEN /\ nodes_store' = set_evictable(nodes_store, frame_id, is_evictable)
            /\ call' = [op |-> "set_evictable", frame_id |-> frame_id,
                        flag |-> is_evictable, outcome |-> "ok", ret |-> None]
            /\ UNCHANGED poisoned
       ELSE /\ poisoned' = TRUE
            /\ call' = [op |-> "set_evictable", frame_id |-> frame_id,
                        flag |-> is_evictable, outcome |-> "panic", ret |-> None]
            /\ UNCHANGED nodes_store
    /\ UNCHANGED <<k, current_timestamp>>

\* remove(frame_id), lines 153-155
Remove(frame_id) ==
    /\ ~poisoned
    /\ nodes_store' = MapRemove(nodes_store, frame_id)
    /\ call' = [op |-> "remove", frame_id |-> frame_id, flag |-> FALSE,
                outcome |-> "ok", ret |-> None]
    /\ UNCHANGED <<k, current_timestamp, poisoned>>

\* the victims evict() can return, over the orders the map may yield
Victims(nodes, now, K) == {evict(nodes, order, now, K) : order \in Orders(DOMAIN nodes)}

\* evict(), lines 76-120
Evict ==
    /\ ~poisoned
    /\ IF ~HistoryAssert(nodes_store, k)
       THEN /\ call' = [op |-> "evict", frame_id |-> 0, flag |-> FALSE,
                        outcome |-> "panic", ret |-> None]
            /\ UNCHANGED nodes_store
       ELSE \E victim \in Victims(nodes_store, current_timestamp, k) :
               /\ nodes_store' = IF victim = None THEN nodes_store
                                 ELSE MapRemove(nodes_store, victim[1])
               /\ call' = [op |-> "evict", frame_id |-> 0, flag |-> FALSE,
                           outcome |-> "ok", ret |-> victim]
    /\ UNCHANGED <<k, current_timestamp, poisoned>>

(***************************************************************************)
(* Buffer pool, frames and page guards                                     *)
(***************************************************************************)
Threads == 1..NumThreads
Pages == 0..MaxPage
\* the page ids of the backing store
StorePages == 0..MaxStorePage
\* the pool is built with pool_size in 1..PoolSize
PoolSizes == 1..PoolSize
Frames == 0..(pool_size - 1)
Bytes == 0..MaxByte

\* the all-zero page; a page is modelled by the byte that fills it
THE_EMPTY_PAGE == 0

\* Frame::new over vec![0u8; PAGE_SIZE], inside a fresh RwLock; poisoned is
\* the poison flag of that lock
Frame_new == [pin_count |-> 0, is_dirty |-> FALSE, data |-> THE_EMPTY_PAGE,
              poisoned |-> FALSE]

\* the locals of a thread that is not inside a fetch
NoFetch == [page_id |-> 0, mode |-> "read", frame_id |-> None, miss |-> FALSE,
            reload |-> FALSE, io_error |-> FALSE]

\* BufferPool::new: zeroed frames, every frame id in the free list, an empty
\* page table, a scheduler with an empty queue and an LRU-K policy
BufferPool_new(capacity, K) ==
    /\ pool_size = capacity
    /\ page_table = <<>>
    /\ pt_lock = 0
    /\ pt_poisoned = FALSE
    /\ free_list = [i \in 1..capacity |-> i - 1]
    /\ frames = [f \in 0..(capacity - 1) |-> Frame_new]
    /\ requests_queue = <<>>
    /\ worker_finished = FALSE
    /\ pc = [t \in Threads |-> "idle"]
    /\ cur = [t \in Threads |-> NoFetch]
    /\ held = [t \in Threads |-> <<>>]
    /\ access = [t \in Threads |-> None]
    /\ unparked = [t \in Threads |-> FALSE]
    /\ io_result = [t \in Threads |-> "none"]
    /\ aborted = FALSE
    /\ loaded = [f \in 0..(capacity - 1) |-> None]
    /\ written = [p \in StorePages |-> None]
    /\ evicted = [p \in StorePages |-> FALSE]
    /\ fetched = {}
    /\ reads_scheduled = 0
    /\ LRUKEvictionPolicy_new(K)

\* the backing store handed to the pool: empty (every read is past the end and
\* yields the empty page) or filled with one non-zero byte
Stores == {[p \in StorePages |-> THE_EMPTY_PAGE], [p \in StorePages |-> MaxByte]}

\* the number of live guards on a frame
LiveGuardsIn(h, frame_id) ==
    Cardinality({ti \in Threads \X (1..MaxHeld) :
                    /\ ti[2] <= Len(h[ti[1]])
                    /\ h[ti[1]][ti[2]].frame_id = frame_id})
LiveGuards(frame_id) == LiveGuardsIn(held, frame_id)

\* threads inside a fetch that have not yet called record_access
InFlight == Cardinality({t \in Threads : pc[t] \in {"get_frame", "schedule", "parked", "record"}})

\* the threads that hold the RwLock of a frame, through read() or write()
Holders(frame_id) ==
    {t \in Threads : access[t] # None /\ access[t][1].frame_id = frame_id}
\* RwLock::write can be acquired / RwLock::read can be acquired
WriteLockFree_Always(frame_id) == TRUE
WriteLockFree(frame_id) == Holders(frame_id) = {}
ReadLockFree(frame_id) == \A t \in Holders(frame_id) : access[t][1].kind = "read"

\* a panic in thread t: the thread unwinds; a page_table write guard it holds
\* is released and poisons the lock
ThreadPanics(t) ==
    /\ pc' = [pc EXCEPT ![t] = "unwinding"]
    /\ cur' = [cur EXCEPT ![t] = NoFetch]
    /\ IF pt_lock = t
       THEN pt_lock' = 0 /\ pt_poisoned' = TRUE
       ELSE UNCHANGED <<pt_lock, pt_poisoned>>

\* get_page_read / get_page_write, lines 70-76 and 113-119: take the page
\* table write lock (expect panics on a poisoned lock; the page asked for
\* stays in the thread's locals) and look the page up; a hit drops the lock
\* at once
FetchLookup(t, page_id, mode) ==
    /\ ~aborted
    /\ pc[t] = "idle"
    /\ access[t] = None
    /\ Len(held[t]) < MaxHeld
    /\ current_timestamp + InFlight < MaxTime
    /\ pt_lock = 0
    /\ fetched' = fetched \cup {page_id}
    /\ IF pt_poisoned
       THEN /\ pc' = [pc EXCEPT ![t] = "unwinding"]
            /\ cur' = [cur EXCEPT ![t] = [NoFetch EXCEPT !.page_id = page_id]]
            /\ UNCHANGED <<pt_lock, pt_poisoned>>
       ELSE IF page_id \in DOMAIN page_table
       THEN /\ cur' = [cur EXCEPT ![t] =
                          [page_id |-> page_id, mode |-> mode,
                           frame_id |-> Some(page_table[page_id]), miss |-> FALSE,
                           reload |-> written[page_id] # None /\ evicted[page_id],
                           io_error |-> FALSE]]
            /\ pc' = [pc EXCEPT ![t] = "record"]
            /\ UNCHANGED <<pt_lock, pt_poisoned>>
       ELSE /\ cur' = [cur EXCEPT ![t] =
                          [page_id |-> page_id, mode |-> mode, frame_id |-> None,
                           miss |-> TRUE,
                           reload |-> written[page_id] # None /\ evicted[page_id],
                           io_error |-> FALSE]]
            /\ pc' = [pc EXCEPT ![t] = "get_frame"]
            /\ pt_lock' = t
            /\ UNCHANGED pt_poisoned
    /\ UNCHANGED <<pool_size, page_table, free_list, frames, requests_queue,
                   worker_finished, disk, held, access, unparked, io_result,
                   aborted, loaded, written, evicted, reads_scheduled, lruk_vars>>

\* page_table.insert(page_id, free_frame_id), lines 92 and 133; the page
\* table write guard taken by the lookup stays held
Install_ReleasesLock(t, frame_id) ==
    /\ page_table' = MapInsert(page_table, cur[t].page_id, frame_id)
    /\ cur' = [cur EXCEPT ![t].frame_id = Some(frame_id)]
    /\ pc' = [pc EXCEPT ![t] = "schedule"]
    /\ pt_lock' = 0
    /\ UNCHANGED pt_poisoned
Install(t, frame_id) ==
    /\ page_table' = MapInsert(page_table, cur[t].page_id, frame_id)
    /\ cur' = [cur EXCEPT ![t].frame_id = Some(frame_id)]
    /\ pc' = [pc EXCEPT ![t] = "schedule"]
    /\ UNCHANGED <<pt_lock, pt_poisoned>>

\* free_list.pop(), line 169: what is left of the free list
Popped_Nothing(list) == list
Popped(list) == SubSeq(list, 1, Len(list) - 1)

\* the miss branch up to the insert, lines 88-92 and 129-133, with
\* try_get_free_frane, lines 168-173: pop the free list, else evict();
\* None panics with "Buffer pool is full"
try_get_free_frane(t) ==
    /\ ~aborted
    /\ pc[t] = "get_frame"
    /\ IF free_list # <<>>
       THEN /\ free_list' = Popped(free_list)
            /\ Install(t, Last(free_list))
            /\ UNCHANGED <<lruk_vars, evicted>>
       ELSE /\ UNCHANGED free_list
            /\ IF poisoned
               THEN /\ ThreadPanics(t)
                    /\ UNCHANGED <<lruk_vars, evicted, page_table>>
               ELSE /\ Evict
                    /\ IF call'.outcome = "ok" /\ call'.ret # None
                       THEN /\ Install(t, call'.ret[1])
                            /\ evicted' = [p \in StorePages |->
                                  evicted[p] \/ loaded[call'.ret[1]] = Some(p)]
                       ELSE /\ ThreadPanics(t)
                            /\ UNCHANGED <<evicted, page_table>>
    /\ UNCHANGED <<pool_size, frames, requests_queue, worker_finished, disk, held,
                   access, unparked, io_result, aborted, loaded, written, fetched,
                   reads_scheduled>>

\* load_page_from_disk, lines 147-153: schedule_read panics if the worker
\* thread has finished, else pushes the request
schedule_read(t) ==
    /\ ~aborted
    /\ pc[t] = "schedule"
    /\ IF worker_finished
       THEN /\ ThreadPanics(t)
            /\ UNCHANGED <<requests_queue, reads_scheduled>>
       ELSE /\ requests_queue' = Append(requests_queue,
                  [page_id |-> cur[t].page_id, frame_id |-> cur[t].frame_id[1],
                   thread |-> t])
            /\ reads_scheduled' = reads_scheduled + 1
            /\ pc' = [pc EXCEPT ![t] = "parked"]
            /\ UNCHANGED <<cur, pt_lock, pt_poisoned>>
    /\ UNCHANGED <<pool_size, page_table, free_list, frames, worker_finished, disk,
                   held, access, unparked, io_result, aborted, loaded, written,
                   evicted, fetched, lruk_vars>>

\* the completion signal the worker sends to the thread that scheduled the
\* read: the parked thread is woken
Complete(thread) == [unparked EXCEPT ![thread] = TRUE]

\* what the reader can answer to the worker's seek and read_exact
PoolIoOutcomes == {"ok", "seek_err", "read_err"}

\* the scheduler worker, disk_scheduler.rs lines 61-98: pop the newest request,
\* take the frame's write lock and read the page into the frame (a read past
\* the end yields the empty page), then signal completion with the result; a
\* failed seek sends the error and ends the worker, a failed read may leave
\* any bytes in the frame; a poisoned frame lock panics the worker, whose
\* panic hook panics again
WorkerRead(io) ==
    /\ ~aborted
    /\ ~worker_finished
    /\ requests_queue # <<>>
    /\ LET request == Last(requests_queue)
       IN  /\ WriteLockFree(request.frame_id)
           /\ requests_queue' = SubSeq(requests_queue, 1, Len(requests_queue) - 1)
           /\ IF frames[request.frame_id].poisoned
              THEN /\ aborted' = TRUE
                   /\ UNCHANGED <<frames, loaded, unparked, io_result, worker_finished>>
              ELSE /\ UNCHANGED aborted
                   /\ unparked' = Complete(request.thread)
                   /\ CASE io = "ok" ->
                             /\ frames' = [frames EXCEPT
                                   ![request.frame_id].data = disk[request.page_id]]
                             /\ loaded' = [loaded EXCEPT
                                   ![request.frame_id] = Some(request.page_id)]
                             /\ io_result' = [io_result EXCEPT ![request.thread] = "Ok"]
                             /\ UNCHANGED worker_finished
                        [] io = "seek_err" ->
                             /\ io_result' = [io_result EXCEPT ![request.thread] = "Err"]
                             /\ worker_finished' = TRUE
                             /\ UNCHANGED <<frames, loaded>>
                        [] io = "read_err" ->
                             /\ \E byte \in Bytes :
                                   frames' = [frames EXCEPT
                                      ![request.frame_id].data = byte]
                             /\ loaded' = [loaded EXCEPT ![request.frame_id] = None]
                             /\ io_result' = [io_result EXCEPT ![request.thread] = "Err"]
                             /\ UNCHANGED worker_finished
    /\ UNCHANGED <<pool_size, page_table, pt_lock, pt_poisoned, free_list, disk, pc,
                   cur, held, access, written, evicted, fetched, reads_scheduled,
                   lruk_vars>>

\* load_page_from_disk, lines 153-165: the value returned by schedule_read is
\* dropped; the thread resumes after completion and reads the frame's first
\* byte through frame.read().unwrap()
LoadResume(t) ==
    /\ ~aborted
    /\ pc[t] = "parked"
    /\ unparked[t]
    /\ ReadLockFree(cur[t].frame_id[1])
    /\ unparked' = [unparked EXCEPT ![t] = FALSE]
    /\ io_result' = [io_result EXCEPT ![t] = "none"]
    /\ IF frames[cur[t].frame_id[1]].poisoned
       THEN ThreadPanics(t)
       ELSE /\ pc' = [pc EXCEPT ![t] = "record"]
            /\ cur' = [cur EXCEPT ![t].io_error = (io_result[t] = "Err")]
            /\ UNCHANGED <<pt_lock, pt_poisoned>>
    /\ UNCHANGED <<pool_size, page_table, free_list, frames, requests_queue,
                   worker_finished, disk, held, access, aborted, loaded, written,
                   evicted, fetched, reads_scheduled, lruk_vars>>

\* PageReadGuard::new / PageWriteGuard::new, frame.rs lines 48 and 73:
\* eviction_policy.record_access(frame_id, Lookup)
GuardRecordAccess(t) ==
    /\ ~aborted
    /\ pc[t] = "record"
    /\ IF poisoned
       THEN /\ current_timestamp' = current_timestamp + 1
            /\ ThreadPanics(t)
            /\ UNCHANGED <<k, nodes_store, poisoned, call>>
       ELSE /\ RecordAccess(cur[t].frame_id[1])
            /\ pc' = [pc EXCEPT ![t] = "set_evictable"]
            /\ UNCHANGED <<cur, pt_lock, pt_poisoned>>
    /\ UNCHANGED <<pool_size, page_table, free_list, frames, requests_queue,
                   worker_finished, disk, held, access, unparked, io_result,
                   aborted, loaded, written, evicted, fetched, reads_scheduled>>

\* frame.rs lines 49 and 74: eviction_policy.set_evictable(frame_id, false)
GuardSetEvictable(t) ==
    /\ ~aborted
    /\ pc[t] = "set_evictable"
    /\ IF poisoned
       THEN /\ ThreadPanics(t)
            /\ UNCHANGED lruk_vars
       ELSE /\ SetEvictable(cur[t].frame_id[1], FALSE)
            /\ IF call'.outcome = "panic"
               THEN ThreadPanics(t)
               ELSE /\ pc' = [pc EXCEPT ![t] = "pin"]
                    /\ UNCHANGED <<cur, pt_lock, pt_poisoned>>
    /\ UNCHANGED <<pool_size, page_table, free_list, frames, requests_queue,
                   worker_finished, disk, held, access, unparked, io_result,
                   aborted, loaded, written, evicted, fetched, reads_scheduled>>

\* the pin_count after the guard constructor's increment
PinIncrement_Skipped(pin_count) == pin_count
PinIncrement(pin_count) == pin_count + 1

\* is_dirty after the guard constructor: PageWriteGuard::new sets it (frame.rs
\* line 78), PageReadGuard::new does not touch it
DirtyAfterPin_AnyGuard(mode, is_dirty) == TRUE
DirtyAfterPin(mode, is_dirty) == IF mode = "write" THEN TRUE ELSE is_dirty

\* frame.rs lines 50-58 and 75-84: under the frame's write lock pin_count += 1
\* (and is_dirty = true for a write guard); the guard is returned and, on the
\* miss path, the page table guard goes out of scope
GuardPin(t) ==
    /\ ~aborted
    /\ pc[t] = "pin"
    /\ LET frame_id == cur[t].frame_id[1]
       IN  /\ WriteLockFree(frame_id)
           /\ frames' = [frames EXCEPT
                 ![frame_id].pin_count = PinIncrement(@),
                 ![frame_id].is_dirty = DirtyAfterPin(cur[t].mode, @)]
           /\ held' = [held EXCEPT ![t] = Append(@,
                 [page_id |-> cur[t].page_id, frame_id |-> frame_id,
                  mode |-> cur[t].mode, reload |-> cur[t].reload,
                  io_error |-> cur[t].io_error])]
    /\ pt_lock' = IF pt_lock = t THEN 0 ELSE pt_lock
    /\ pc' = [pc EXCEPT ![t] = "idle"]
    /\ cur' = [cur EXCEPT ![t] = NoFetch]
    /\ UNCHANGED <<pool_size, page_table, pt_poisoned, free_list, requests_queue,
                   worker_finished, disk, access, unparked, io_result, aborted,
                   loaded, written, evicted, fetched, reads_scheduled, lruk_vars>>

\* PageReadGuard::read / PageWriteGuard::write, frame.rs lines 61-63 and
\* 87-89: the guard's holder takes the frame's RwLock, shared through a read
\* guard and exclusive through a write guard; unwrap() panics on a poisoned
\* lock
BeginAccess(t, i) ==
    /\ ~aborted
    /\ pc[t] = "idle"
    /\ access[t] = None
    /\ i \in 1..Len(held[t])
    /\ LET frame_id == held[t][i].frame_id
           kind == held[t][i].mode
       IN  /\ IF kind = "write" THEN WriteLockFree(frame_id) ELSE ReadLockFree(frame_id)
           /\ IF frames[frame_id].poisoned
              THEN /\ ThreadPanics(t)
                   /\ UNCHANGED access
              ELSE /\ access' = [access EXCEPT ![t] =
                         Some([idx |-> i, frame_id |-> frame_id, kind |-> kind])]
                   /\ UNCHANGED <<pc, cur, pt_lock, pt_poisoned>>
    /\ UNCHANGED <<pool_size, page_table, free_list, frames, requests_queue,
                   worker_finished, disk, held, unparked, io_result, aborted,
                   loaded, written, evicted, fetched, reads_scheduled, lruk_vars>>

\* the RwLockReadGuard / RwLockWriteGuard goes out of scope
EndAccess(t) ==
    /\ ~aborted
    /\ access[t] # None
    /\ access' = [access EXCEPT ![t] = None]
    /\ UNCHANGED <<pool_size, page_table, pt_lock, pt_poisoned, free_list, frames,
                   requests_queue, worker_finished, disk, pc, cur, held, unparked,
                   io_result, aborted, loaded, written, evicted, fetched,
                   reads_scheduled, lruk_vars>>

\* database.rs line 113, page.write().data = vec![i as u8; PAGE_SIZE].into():
\* the holder of the frame's write lock overwrites the whole page
WriteData(t, i, byte) ==
    /\ ~aborted
    /\ access[t] # None
    /\ access[t][1].idx = i
    /\ access[t][1].kind = "write"
    /\ frames' = [frames EXCEPT ![access[t][1].frame_id].data = byte]
    /\ written' = [written EXCEPT ![held[t][i].page_id] = Some(byte)]
    /\ evicted' = [evicted EXCEPT ![held[t][i].page_id] = FALSE]
    /\ UNCHANGED <<pool_size, page_table, pt_lock, pt_poisoned, free_list,
                   requests_queue, worker_finished, disk, pc, cur, held, access,
                   unparked, io_result, aborted, loaded, fetched, reads_scheduled,
                   lruk_vars>>

RemoveAt(seq, i) == SubSeq(seq, 1, i - 1) \o SubSeq(seq, i + 1, Len(seq))

\* Drop for PageReadGuard / PageWriteGuard, frame.rs lines 92-111: under the
\* frame's write lock pin_count -= 1 and, at zero, set_evictable(frame_id, true);
\* a panic inside set_evictable poisons the frame lock held by the drop; a
\* guard is also dropped while its thread unwinds from a panic, and a panic
\* in that drop aborts the process
DropGuard(t, i) ==
    /\ ~aborted
    /\ pc[t] \in {"idle", "unwinding"}
    /\ access[t] = None
    /\ i \in 1..Len(held[t])
    /\ LET frame_id == held[t][i].frame_id
       IN  /\ WriteLockFree(frame_id)
           /\ held' = [held EXCEPT ![t] = RemoveAt(@, i)]
           /\ IF frames[frame_id].pin_count - 1 # 0
              THEN /\ frames' = [frames EXCEPT ![frame_id].pin_count = @ - 1]
                   /\ UNCHANGED <<lruk_vars, pc, aborted>>
              ELSE /\ IF poisoned
                      THEN UNCHANGED lruk_vars
                      ELSE SetEvictable(frame_id, TRUE)
                   /\ IF poisoned \/ call'.outcome = "panic"
                      THEN /\ frames' = [frames EXCEPT
                                 ![frame_id].pin_count = @ - 1,
                                 ![frame_id].poisoned = TRUE]
                           /\ IF pc[t] = "unwinding"
                              THEN aborted' = TRUE /\ UNCHANGED pc
                              ELSE /\ pc' = [pc EXCEPT ![t] = "unwinding"]
                                   /\ UNCHANGED aborted
                      ELSE /\ frames' = [frames EXCEPT ![frame_id].pin_count = @ - 1]
                           /\ UNCHANGED <<pc, aborted>>
    /\ UNCHANGED <<pool_size, page_table, pt_lock, pt_poisoned, free_list,
                   requests_queue, worker_finished, disk, cur, access, unparked,
                   io_result, loaded, written, evicted, fetched, reads_scheduled>>

(***************************************************************************)
(* Disk scheduler, byte by byte                                            *)
(***************************************************************************)
\* the two frames a client hands to the scheduler (frame1, frame2 of the test)
SchedFrames == {1, 2}
Requests == 1..MaxRequests
EmptyPageBytes == [i \in 1..PageLen |-> THE_EMPTY_PAGE]

\* page_id_to_file_offset, lines 185-187
page_id_to_file_offset(id) == id * PageLen

\* the store after write_all(bytes) at position pos; a gap between the end
\* of the store and pos is zero filled
WriteAt_IgnoresPosition(bytes_store, pos, bytes) ==
    [i \in 1..(IF Len(bytes_store) > Len(bytes) THEN Len(bytes_store) ELSE Len(bytes)) |->
        IF i <= Len(bytes) THEN bytes[i] ELSE bytes_store[i]]

WriteAt(bytes_store, pos, bytes) ==
    [i \in 1..(IF Len(bytes_store) > pos + Len(bytes)
               THEN Len(bytes_store) ELSE pos + Len(bytes)) |->
        IF i > pos /\ i <= pos + Len(bytes) THEN bytes[i - pos]
        ELSE IF i <= Len(bytes_store) THEN bytes_store[i]
        ELSE 0]

\* read_exact of one page at position pos, when the store holds that many bytes
ReadAt(bytes_store, pos) == [i \in 1..PageLen |-> bytes_store[pos + i]]

\* the position of the reader after read_exact failed with UnexpectedEof at
\* offset in a store of len bytes: std leaves the number of bytes consumed
\* unspecified; it is offset (nothing consumed), len (everything left was
\* consumed, or the cursor was moved to the end), depending on the reader
EofPositions(offset, len) == {offset, len, IF offset > len THEN offset ELSE len}

\* the worker has served no request yet
NoRequest == [id |-> 0, kind |-> "none", page_id |-> 0, frame |-> 1, result |-> "none"]
ClientIdle == [pc |-> "idle", id |-> 0, kind |-> "none", page_id |-> 0, frame |-> 1]

\* DiskScheduler::new over a store, lines 34-136, and the frames of the client
DiskScheduler_new(reader, client_frames) ==
    /\ sched_store = reader
    /\ sched_frames = client_frames
    /\ sched_queue = <<>>
    /\ sched_result = [r \in Requests |-> "none"]
    /\ sched_rx = [r \in Requests |-> "none"]
    /\ sched_worker = "running"
    /\ sched_client = ClientIdle
    /\ sched_last = NoRequest

\* the requests submitted so far
Submitted == {r \in Requests : sched_rx[r] # "none"}

\* schedule_read / schedule_write, lines 143-147 and 165-169: create the
\* channel, then panic if the worker thread has finished
ScheduleCheck(kind, page_id, frame) ==
    /\ sched_worker # "aborted"
    /\ sched_client.pc = "idle"
    /\ Cardinality(Submitted) < MaxRequests
    /\ LET id == Cardinality(Submitted) + 1
       IN  IF sched_worker = "finished"
           THEN /\ sched_client' = [sched_client EXCEPT !.pc = "panicked"]
                /\ sched_rx' = [sched_rx EXCEPT ![id] = "dropped"]
           ELSE /\ sched_client' = [pc |-> "push", id |-> id, kind |-> kind,
                                    page_id |-> page_id, frame |-> frame]
                /\ sched_rx' = [sched_rx EXCEPT ![id] = "live"]
    /\ UNCHANGED <<sched_store, sched_frames, sched_queue, sched_result,
                   sched_worker, sched_last>>

\* schedule_read / schedule_write, lines 148-157 and 170-179: push the
\* request and return the receiver
SchedulePush ==
    /\ sched_worker # "aborted"
    /\ sched_client.pc = "push"
    /\ sched_queue' = Append(sched_queue,
          [id |-> sched_client.id, kind |-> sched_client.kind,
           page_id |-> sched_client.page_id, frame |-> sched_client.frame])
    /\ sched_client' = ClientIdle
    /\ UNCHANGED <<sched_store, sched_frames, sched_result, sched_rx, sched_worker,
                   sched_last>>

\* receiver.recv() on the completion channel (oneshot.rs lines 51-75): after
\* the worker's send the receiver holds the last handle and gets Closed,
\* otherwise it waits
ClientRecv(id) ==
    /\ sched_worker # "aborted"
    /\ sched_client.pc = "idle"
    /\ sched_rx[id] = "live"
    /\ IF sched_result[id] # "none"
       THEN /\ sched_rx' = [sched_rx EXCEPT ![id] = "Closed"]
            /\ UNCHANGED sched_client
       ELSE /\ sched_rx' = [sched_rx EXCEPT ![id] = "waiting"]
            /\ sched_client' = [sched_client EXCEPT !.pc = "recv"]
    /\ UNCHANGED <<sched_store, sched_frames, sched_queue, sched_result,
                   sched_worker, sched_last>>

\* the waiting recv is notified by send and takes the result
ClientWake(id) ==
    /\ sched_worker # "aborted"
    /\ sched_rx[id] = "waiting"
    /\ sched_result[id] # "none"
    /\ sched_rx' = [sched_rx EXCEPT ![id] = sched_result[id]]
    /\ sched_client' = [sched_client EXCEPT !.pc = "idle"]
    /\ UNCHANGED <<sched_store, sched_frames, sched_queue, sched_result,
                   sched_worker, sched_last>>

\* the client drops the receiver without calling recv
ClientDropReceiver(id) ==
    /\ sched_worker # "aborted"
    /\ sched_client.pc = "idle"
    /\ sched_rx[id] = "live"
    /\ sched_rx' = [sched_rx EXCEPT ![id] = "dropped"]
    /\ UNCHANGED <<sched_store, sched_frames, sched_queue, sched_result,
                   sched_worker, sched_client, sched_last>>

\* channel.send(result).unwrap(): send is Err(Closed) when the receiver was
\* dropped and the unwrap panics; the worker's panic hook panics again, which
\* aborts the process. Otherwise the worker goes on as next_worker
Deliver(request, result, next_worker) ==
    /\ sched_last' = [id |-> request.id, kind |-> request.kind,
                      page_id |-> request.page_id, frame |-> request.frame,
                      result |-> result]
    /\ IF sched_rx[request.id] = "dropped"
       THEN /\ sched_worker' = "aborted"
            /\ UNCHANGED sched_result
       ELSE /\ sched_worker' = next_worker
            /\ sched_result' = [sched_result EXCEPT ![request.id] = result]

\* the outcomes of the store's operations
IoOutcomes == {"ok", "seek_err", "read_err", "write_err"}

\* worker loop, lines 61-98: pop the newest request; Read arm
SchedWorkerRead(io) ==
    /\ sched_worker = "running"
    /\ sched_queue # <<>>
    /\ Last(sched_queue).kind = "read"
    /\ sched_queue' = SubSeq(sched_queue, 1, Len(sched_queue) - 1)
    /\ LET request == Last(sched_queue)
           offset == page_id_to_file_offset(request.page_id)
           len == Len(sched_store)
       IN  CASE io = "seek_err" ->
                  /\ Deliver(request, "Err", "finished")
                  /\ UNCHANGED <<sched_store, sched_frames>>
             [] io = "read_err" ->
                  /\ Deliver(request, "Err", "running")
                  /\ \E filled \in {sched_frames[request.frame]} \cup
                        (IF offset < len
                         THEN {[sched_frames[request.frame] EXCEPT
                                   ![1] = sched_store[offset + 1]]}
                         ELSE {}) :
                        sched_frames' = [sched_frames EXCEPT ![request.frame] = filled]
                  /\ UNCHANGED sched_store
             [] io = "ok" /\ offset + PageLen <= len ->
                  /\ sched_frames' = [sched_frames EXCEPT
                        ![request.frame] = ReadAt(sched_store, offset)]
                  /\ Deliver(request, "Ok", "running")
                  /\ UNCHANGED sched_store
             [] io = "ok" /\ offset + PageLen > len ->
                  /\ \E pos \in EofPositions(offset, len) :
                        sched_store' = WriteAt(sched_store, pos, EmptyPageBytes)
                  /\ sched_frames' = [sched_frames EXCEPT
                        ![request.frame] = EmptyPageBytes]
                  /\ Deliver(request, "Ok", "running")
             [] io = "write_err" /\ offset + PageLen > len ->
                  /\ sched_worker' = "aborted"
                  /\ sched_last' = [id |-> request.id, kind |-> request.kind,
                                    page_id |-> request.page_id,
                                    frame |-> request.frame, result |-> "none"]
                  /\ UNCHANGED <<sched_store, sched_frames, sched_result>>
             [] io = "write_err" /\ offset + PageLen <= len -> FALSE
    /\ UNCHANGED <<sched_rx, sched_client>>

\* worker loop, lines 99-122: Write arm
SchedWorkerWrite(io) ==
    /\ sched_worker = "running"
    /\ sched_queue # <<>>
    /\ Last(sched_queue).kind = "write"
    /\ sched_queue' = SubSeq(sched_queue, 1, Len(sched_queue) - 1)
    /\ LET request == Last(sched_queue)
           offset == page_id_to_file_offset(request.page_id)
       IN  CASE io = "seek_err" ->
                  /\ Deliver(request, "Err", "finished")
                  /\ UNCHANGED sched_store
             [] io = "ok" ->
                  /\ sched_store' = WriteAt(sched_store, offset,
                                            sched_frames[request.frame])
                  /\ Deliver(request, "Ok", "running")
             [] io = "write_err" ->
                  /\ \E stored \in {sched_store,
                                    WriteAt(sched_store, offset,
                                            <<sched_frames[request.frame][1]>>)} :
                        sched_store' = stored
                  /\ Deliver(request, "Err", "running")
             [] io = "read_err" -> FALSE
    /\ UNCHANGED <<sched_frames, sched_rx, sched_client>>

(***************************************************************************)
(* LRU-K eviction policy called by concurrent threads, lock by lock        *)
(***************************************************************************)
\* evict's loop subtracts below zero at some node: a full-history evictable
\* node, visited before any +inf node, whose last access is after `now`
RECURSIVE ScanOverflows(_, _, _, _, _)
ScanOverflows(acc, nodes, order, now, K) ==
    IF order = <<>> THEN FALSE
    ELSE LET frame == nodes[Head(order)]
         IN  \/ /\ frame.is_evictable
                /\ acc.max_backward_distance # BACKWARD_DISTANCE_INF
                /\ Len(frame.history) = K
                /\ Last(frame.history) > now
             \/ ScanOverflows(ScanVisit(acc, frame, now, K), nodes, Tail(order), now, K)

\* record_access, line 128: let now = self.next_timestamp(), before the lock
PolNextTimestamp(t, frame_id) ==
    /\ pol[t].op = "idle"
    /\ current_timestamp < MaxTime
    /\ current_timestamp' = current_timestamp + 1
    /\ pol' = [pol EXCEPT ![t] = [op |-> "record_access", frame_id |-> frame_id,
                                  now |-> current_timestamp, victim |-> None]]
    /\ UNCHANGED <<k, nodes_store, poisoned, call>>

\* record_access, lines 130-141: under the write lock insert the node if
\* absent and push `now`
PolPush(t) ==
    /\ pol[t].op = "record_access"
    /\ ~poisoned
    /\ nodes_store' = record_access(nodes_store, pol[t].frame_id, pol[t].now, k)
    /\ call' = [op |-> "record_access", frame_id |-> pol[t].frame_id, flag |-> FALSE,
                outcome |-> "ok", ret |-> None]
    /\ pol' = [pol EXCEPT ![t] = PolIdle]
    /\ UNCHANGED <<k, current_timestamp, poisoned>>

\* set_evictable, lines 145-151, one hold of the write lock
PolSetEvictable(t, frame_id, is_evictable) ==
    /\ pol[t].op = "idle"
    /\ SetEvictable(frame_id, is_evictable)
    /\ UNCHANGED pol

\* evict, line 77: let current_timestamp = self.get_timestamp(), before the lock
PolGetTimestamp(t) ==
    /\ pol[t].op = "idle"
    /\ pol' = [pol EXCEPT ![t] = [op |-> "evict_scan", frame_id |-> 0,
                                  now |-> current_timestamp, victim |-> None]]
    /\ UNCHANGED lruk_vars

\* evict, lines 84-111: the loop under the read lock; a failed assertion or,
\* with overflow checks, a subtraction below zero panics (a read guard does
\* not poison the lock); no victim returns None
PolScan(t) ==
    /\ pol[t].op = "evict_scan"
    /\ ~poisoned
    /\ IF ~HistoryAssert(nodes_store, k)
       THEN /\ call' = [op |-> "evict", frame_id |-> 0, flag |-> FALSE,
                        outcome |-> "panic", ret |-> None]
            /\ pol' = [pol EXCEPT ![t] = PolIdle]
       ELSE \E order \in Orders(DOMAIN nodes_store) :
               \/ /\ ScanOverflows(ScanStart, nodes_store, order, pol[t].now, k)
                  /\ call' = [op |-> "evict", frame_id |-> 0, flag |-> FALSE,
                              outcome |-> "panic", ret |-> None]
                  /\ pol' = [pol EXCEPT ![t] = PolIdle]
               \/ LET victim == evict(nodes_store, order, pol[t].now, k)
                  IN  IF victim = None
                      THEN /\ call' = [op |-> "evict", frame_id |-> 0, flag |-> FALSE,
                                       outcome |-> "ok", ret |-> None]
                           /\ pol' = [pol EXCEPT ![t] = PolIdle]
                      ELSE /\ pol' = [pol EXCEPT ![t].op = "evict_remove",
                                                 ![t].victim = victim]
                           /\ UNCHANGED call
    /\ UNCHANGED <<k, nodes_store, current_timestamp, poisoned>>

\* evict, lines 113-117: self.remove(frame_id) under the write lock, then
\* Some(frame_id)
PolRemove(t) ==
    /\ pol[t].op = "evict_remove"
    /\ ~poisoned
    /\ nodes_store' = MapRemove(nodes_store, pol[t].victim[1])
    /\ call' = [op |-> "evict", frame_id |-> 0, flag |-> FALSE,
                outcome |-> "ok", ret |-> pol[t].victim]
    /\ pol' = [pol EXCEPT ![t] = PolIdle]
    /\ UNCHANGED <<k, current_timestamp, poisoned>>

\* a call that reaches a poisoned nodes_store lock panics in unwrap()
PolPoisoned(t) ==
    /\ pol[t].op # "idle"
    /\ poisoned
    /\ pol' = [pol EXCEPT ![t] = PolIdle]
    /\ UNCHANGED lruk_vars

(***************************************************************************)
(* Specifications                                                          *)
(***************************************************************************)
\* the frames of the scheduler test: Frame::new(vec![0u8; PAGE_SIZE])
ZeroFrames == [f \in SchedFrames |-> EmptyPageBytes]

InitOneshot ==
    /\ channel
    /\ BufferPool_new(PoolSize, MaxK)
    /\ disk = [p \in StorePages |-> THE_EMPTY_PAGE]
    /\ DiskScheduler_new(<<>>, ZeroFrames)

NextOneshot ==
    \E c \in Chans :
        \/ \E v \in Values : SendLock(c, v) /\ UNCHANGED <<lruk_vars, pool_vars, disk_vars, pol>>
        \/ SendBody(c) /\ UNCHANGED <<lruk_vars, pool_vars, disk_vars, pol>>
        \/ SendUnlock(c) /\ UNCHANGED <<lruk_vars, pool_vars, disk_vars, pol>>
        \/ DropSender(c) /\ UNCHANGED <<lruk_vars, pool_vars, disk_vars, pol>>
        \/ RecvLock(c) /\ UNCHANGED <<lruk_vars, pool_vars, disk_vars, pol>>
        \/ RecvTryUnwrap(c) /\ UNCHANGED <<lruk_vars, pool_vars, disk_vars, pol>>
        \/ RecvWait(c) /\ UNCHANGED <<lruk_vars, pool_vars, disk_vars, pol>>
        \/ RecvWake(c) /\ UNCHANGED <<lruk_vars, pool_vars, disk_vars, pol>>
        \/ RecvTake(c) /\ UNCHANGED <<lruk_vars, pool_vars, disk_vars, pol>>
        \/ RecvUnlock(c) /\ UNCHANGED <<lruk_vars, pool_vars, disk_vars, pol>>
        \/ DropReceiver(c) /\ UNCHANGED <<lruk_vars, pool_vars, disk_vars, pol>>

SpecOneshot == InitOneshot /\ [][NextOneshot]_vars

\* the steps of a recv call in progress and of a send call in progress
RecvStep(c) ==
    /\ \/ RecvTryUnwrap(c)
       \/ RecvWait(c)
       \/ RecvWake(c)
       \/ RecvTake(c)
       \/ RecvUnlock(c)
    /\ UNCHANGED <<lruk_vars, pool_vars, disk_vars, pol>>
SendStep(c) ==
    /\ \/ SendBody(c)
       \/ SendUnlock(c)
    /\ UNCHANGED <<lruk_vars, pool_vars, disk_vars, pol>>

\* the scheduler runs every thread that can take a step: a call in progress
\* is not starved (calling send or recv, or dropping a half, stays a choice
\* of the program)
SpecOneshotFair ==
    /\ SpecOneshot
    /\ \A c \in Chans : WF_vars(RecvStep(c)) /\ WF_vars(SendStep(c))

InitLRUK ==
    /\ channel
    /\ \E K \in 1..MaxK : BufferPool_new(PoolSize, K)
    /\ disk = [p \in StorePages |-> THE_EMPTY_PAGE]
    /\ DiskScheduler_new(<<>>, ZeroFrames)

NextLRUK ==
    \/ \E f \in PolicyFrames : RecordAccess(f) /\ UNCHANGED <<oneshot_vars, pool_vars, disk_vars, pol>>
    \/ \E f \in PolicyFrames, b \in BOOLEAN :
          SetEvictable(f, b) /\ UNCHANGED <<oneshot_vars, pool_vars, disk_vars, pol>>
    \/ \E f \in PolicyFrames : Remove(f) /\ UNCHANGED <<oneshot_vars, pool_vars, disk_vars, pol>>
    \/ Evict /\ UNCHANGED <<oneshot_vars, pool_vars, disk_vars, pol>>

SpecLRUK == InitLRUK /\ [][NextLRUK]_vars

\* the policy shared by NumThreads threads, each call taking its locks in turn
NextLRUKConc ==
    \/ \E t \in Threads, f \in PolicyFrames : PolNextTimestamp(t, f) /\ UNCHANGED <<oneshot_vars, pool_vars, disk_vars>>
    \/ \E t \in Threads : PolPush(t) /\ UNCHANGED <<oneshot_vars, pool_vars, disk_vars>>
    \/ \E t \in Threads, f \in PolicyFrames, b \in BOOLEAN :
          PolSetEvictable(t, f, b) /\ UNCHANGED <<oneshot_vars, pool_vars, disk_vars>>
    \/ \E t \in Threads : PolGetTimestamp(t) /\ UNCHANGED <<oneshot_vars, pool_vars, disk_vars>>
    \/ \E t \in Threads : PolScan(t) /\ UNCHANGED <<oneshot_vars, pool_vars, disk_vars>>
    \/ \E t \in Threads : PolRemove(t) /\ UNCHANGED <<oneshot_vars, pool_vars, disk_vars>>
    \/ \E t \in Threads : PolPoisoned(t) /\ UNCHANGED <<oneshot_vars, pool_vars, disk_vars>>

SpecLRUKConc == InitLRUK /\ [][NextLRUKConc]_vars

InitPool ==
    /\ channel
    /\ \E capacity \in PoolSizes, K \in 1..MaxK : BufferPool_new(capacity, K)
    /\ disk \in Stores
    /\ DiskScheduler_new(<<>>, ZeroFrames)

\* the pool over a backing store whose seeks and reads succeed
NextPool ==
    \/ \E t \in Threads, p \in Pages, mode \in {"read", "write"} :
          FetchLookup(t, p, mode) /\ UNCHANGED <<oneshot_vars, disk_vars, pol>>
    \/ \E t \in Threads : try_get_free_frane(t) /\ UNCHANGED <<oneshot_vars, disk_vars, pol>>
    \/ \E t \in Threads : schedule_read(t) /\ UNCHANGED <<oneshot_vars, disk_vars, pol>>
    \/ WorkerRead("ok") /\ UNCHANGED <<oneshot_vars, disk_vars, pol>>
    \/ \E t \in Threads : LoadResume(t) /\ UNCHANGED <<oneshot_vars, disk_vars, pol>>
    \/ \E t \in Threads : GuardRecordAccess(t) /\ UNCHANGED <<oneshot_vars, disk_vars, pol>>
    \/ \E t \in Threads : GuardSetEvictable(t) /\ UNCHANGED <<oneshot_vars, disk_vars, pol>>
    \/ \E t \in Threads : GuardPin(t) /\ UNCHANGED <<oneshot_vars, disk_vars, pol>>
    \/ \E t \in Threads, i \in 1..MaxHeld : BeginAccess(t, i) /\ UNCHANGED <<oneshot_vars, disk_vars, pol>>
    \/ \E t \in Threads : EndAccess(t) /\ UNCHANGED <<oneshot_vars, disk_vars, pol>>
    \/ \E t \in Threads, i \in 1..MaxHeld, b \in Bytes :
          WriteData(t, i, b) /\ UNCHANGED <<oneshot_vars, disk_vars, pol>>
    \/ \E t \in Threads, i \in 1..MaxHeld : DropGuard(t, i) /\ UNCHANGED <<oneshot_vars, disk_vars, pol>>

SpecPool == InitPool /\ [][NextPool]_vars

\* the steps of thread t inside a fetch, after the lookup
FetchStep(t) ==
    /\ \/ try_get_free_frane(t)
       \/ schedule_read(t)
       \/ LoadResume(t)
       \/ GuardRecordAccess(t)
       \/ GuardSetEvictable(t)
       \/ GuardPin(t)
    /\ UNCHANGED <<oneshot_vars, disk_vars, pol>>
\* the scheduler worker serves a queued read
WorkerStep == WorkerRead("ok") /\ UNCHANGED <<oneshot_vars, disk_vars, pol>>
\* thread t lets go of a frame lock or of a guard
ReleaseStep(t) ==
    /\ \E i \in 1..MaxHeld : DropGuard(t, i)
    /\ UNCHANGED <<oneshot_vars, disk_vars, pol>>

\* the pages in use: the pages of the live guards and of the fetches in
\* progress
PinnedPages ==
    UNION {{held[t][i].page_id : i \in 1..Len(held[t])} : t \in Threads} \cup
    {cur[t].page_id : t \in {u \in Threads : pc[u] \notin {"idle", "unwinding"}}}

\* the pool of PoolSize frames over a store of more pages than frames; the
\* threads ask for a page only while that keeps the pages in use within the
\* capacity of the pool
InitPoolFair ==
    /\ channel
    /\ BufferPool_new(PoolSize, 1)
    /\ disk = [p \in StorePages |-> THE_EMPTY_PAGE]
    /\ DiskScheduler_new(<<>>, ZeroFrames)

NextPoolFair ==
    \/ \E t \in Threads, p \in StorePages, mode \in {"read", "write"} :
          /\ FetchLookup(t, p, mode)
          /\ Cardinality(PinnedPages \cup {p}) <= pool_size
          /\ UNCHANGED <<oneshot_vars, disk_vars, pol>>
    \/ \E t \in Threads : try_get_free_frane(t) /\ UNCHANGED <<oneshot_vars, disk_vars, pol>>
    \/ \E t \in Threads : schedule_read(t) /\ UNCHANGED <<oneshot_vars, disk_vars, pol>>
    \/ WorkerRead("ok") /\ UNCHANGED <<oneshot_vars, disk_vars, pol>>
    \/ \E t \in Threads : LoadResume(t) /\ UNCHANGED <<oneshot_vars, disk_vars, pol>>
    \/ \E t \in Threads : GuardRecordAccess(t) /\ UNCHANGED <<oneshot_vars, disk_vars, pol>>
    \/ \E t \in Threads : GuardSetEvictable(t) /\ UNCHANGED <<oneshot_vars, disk_vars, pol>>
    \/ \E t \in Threads : GuardPin(t) /\ UNCHANGED <<oneshot_vars, disk_vars, pol>>
    \/ \E t \in Threads, i \in 1..MaxHeld : DropGuard(t, i) /\ UNCHANGED <<oneshot_vars, disk_vars, pol>>

\* the scheduler runs every thread that can take a step: a fetch in progress
\* and the worker are not starved, not even at a lock that is free again and
\* again, and every thread drops each guard it holds (calling a fetch stays a
\* choice of the program)
SpecPoolFair ==
    /\ InitPoolFair
    /\ [][NextPoolFair]_vars
    /\ \A t \in Threads : SF_vars(FetchStep(t)) /\ SF_vars(ReleaseStep(t))
    /\ SF_vars(WorkerStep)

NextPoolIO ==
    \/ \E t \in Threads, p \in Pages, mode \in {"read", "write"} :
          FetchLookup(t, p, mode) /\ UNCHANGED <<oneshot_vars, disk_vars, pol>>
    \/ \E t \in Threads : try_get_free_frane(t) /\ UNCHANGED <<oneshot_vars, disk_vars, pol>>
    \/ \E t \in Threads : schedule_read(t) /\ UNCHANGED <<oneshot_vars, disk_vars, pol>>
    \/ \E io \in PoolIoOutcomes : WorkerRead(io) /\ UNCHANGED <<oneshot_vars, disk_vars, pol>>
    \/ \E t \in Threads : LoadResume(t) /\ UNCHANGED <<oneshot_vars, disk_vars, pol>>
    \/ \E t \in Threads : GuardRecordAccess(t) /\ UNCHANGED <<oneshot_vars, disk_vars, pol>>
    \/ \E t \in Threads : GuardSetEvictable(t) /\ UNCHANGED <<oneshot_vars, disk_vars, pol>>
    \/ \E t \in Threads : GuardPin(t) /\ UNCHANGED <<oneshot_vars, disk_vars, pol>>
    \/ \E t \in Threads, i \in 1..MaxHeld : BeginAccess(t, i) /\ UNCHANGED <<oneshot_vars, disk_vars, pol>>
    \/ \E t \in Threads : EndAccess(t) /\ UNCHANGED <<oneshot_vars, disk_vars, pol>>
    \/ \E t \in Threads, i \in 1..MaxHeld, b \in Bytes :
          WriteData(t, i, b) /\ UNCHANGED <<oneshot_vars, disk_vars, pol>>
    \/ \E t \in Threads, i \in 1..MaxHeld : DropGuard(t, i) /\ UNCHANGED <<oneshot_vars, disk_vars, pol>>

\* the pool over a backing store whose seeks and reads may fail: a pool of one
\* frame over a non-empty store
InitPoolIO ==
    /\ channel
    /\ \E K \in 1..MaxK : BufferPool_new(1, K)
    /\ disk = [p \in StorePages |-> MaxByte]
    /\ DiskScheduler_new(<<>>, ZeroFrames)

SpecPoolIO == InitPoolIO /\ [][NextPoolIO]_vars

\* the stores handed to the scheduler: empty, ending inside page 0, or
\* holding every page; the bytes stored are non-zero
SchedStores == {[i \in 1..n |-> MaxByte] : n \in {0, PageLen - 1, (MaxPage + 1) * PageLen}}

\* what the client puts into frame1 before it submits: bytes that differ
\* from one position to the next, or the store's byte throughout
ClientContents ==
    {[i \in 1..PageLen |-> i % (MaxByte + 1)], [i \in 1..PageLen |-> MaxByte]}

\* the pages the client asks for: the first and the last
SchedPages == {0, MaxPage}

InitDisk ==
    /\ channel
    /\ BufferPool_new(PoolSize, MaxK)
    /\ disk = [p \in StorePages |-> THE_EMPTY_PAGE]
    /\ \E reader \in SchedStores, content \in ClientContents :
          DiskScheduler_new(reader, [ZeroFrames EXCEPT ![1] = content])

NextDisk ==
    \/ \E kind \in {"read", "write"}, p \in SchedPages :
          /\ ScheduleCheck(kind, p, IF kind = "write" THEN 1 ELSE 2)
          /\ UNCHANGED <<oneshot_vars, lruk_vars, pool_vars, pol>>
    \/ SchedulePush /\ UNCHANGED <<oneshot_vars, lruk_vars, pool_vars, pol>>
    \/ \E r \in Requests : ClientRecv(r) /\ UNCHANGED <<oneshot_vars, lruk_vars, pool_vars, pol>>
    \/ \E r \in Requests : ClientWake(r) /\ UNCHANGED <<oneshot_vars, lruk_vars, pool_vars, pol>>
    \/ \E r \in Requests :
          ClientDropReceiver(r) /\ UNCHANGED <<oneshot_vars, lruk_vars, pool_vars, pol>>
    \/ \E io \in IoOutcomes :
          SchedWorkerRead(io) /\ UNCHANGED <<oneshot_vars, lruk_vars, pool_vars, pol>>
    \/ \E io \in IoOutcomes :
          SchedWorkerWrite(io) /\ UNCHANGED <<oneshot_vars, lruk_vars, pool_vars, pol>>

SpecDisk == InitDisk /\ [][NextDisk]_vars

\* the worker loop takes its next request
SchedWorkerStep ==
    /\ \E io \in IoOutcomes : SchedWorkerRead(io) \/ SchedWorkerWrite(io)
    /\ UNCHANGED <<oneshot_vars, lruk_vars, pool_vars, pol>>

\* the scheduler under a thread scheduler that does not starve the worker
\* thread (submitting, awaiting and dropping stay choices of the client)
SpecDiskFair == SpecDisk /\ WF_vars(SchedWorkerStep)

(***************************************************************************)
(* Claims                                                                  *)
(***************************************************************************)
\* send has returned (its result is fixed once the body has run)
SendReturned(c) == tx_pc[c] \in {"unlock", "done"}
\* recv has returned
RecvReturned(c) == rx_pc[c] \in {"unlock", "done"}

\* C1: exactly-once delivery. Whenever send returned Ok and recv has returned,
\* recv returned Ok(v) with v the value that was sent (whichever of the two
\* took the mutex first).
C1_SendOkImpliesRecvOk ==
    \A c \in Chans :
        (tx_ret[c] = "Ok" /\ RecvReturned(c)) => rx_ret[c] = <<"Ok", tx_val[c][1]>>

\* C9: a send called after the receiver was dropped returns Err(Closed), leaves
\* the cell empty and no recv result exists.
C9_SendAfterReceiverDropIsClosed ==
    \A c \in Chans :
        (rx_gone_at_send[c] /\ SendReturned(c)) =>
            /\ tx_ret[c] = "Closed"
            /\ data[c] = None
            /\ rx_ret[c] = <<"none">>

\* C9 witness: on some channel the receiver was dropped, then send ran to its end
C9_Witness ==
    \E c \in Chans : rx_gone_at_send[c] /\ tx_pc[c] = "done" /\ rx_pc[c] = "dropped"

\* C10: recv returns Err(Closed) exactly when the sender was dropped without
\* sending; never on a channel on which send returned Ok.
C10_ClosedIffSenderDropped ==
    \A c \in Chans :
        RecvReturned(c) =>
            /\ (rx_ret[c] = <<"Closed">>) <=> (tx_pc[c] = "dropped")
            /\ tx_ret[c] = "Ok" => rx_ret[c] # <<"Closed">>

\* recv has been called
RecvCalled(c) == rx_pc[c] \notin {"live", "dropped"}

\* C11: a recv call in progress eventually returns once the sender has sent
\* or has been dropped, also when the drop comes after recv started to wait.
C11_RecvEventuallyReturns ==
    \A c \in Chans :
        (RecvCalled(c) /\ tx_pc[c] \in {"done", "dropped"}) ~> (rx_pc[c] = "done")

\* this step is the worker serving a request
WorkerServed == sched_last'.id # sched_last.id

\* the positions of the store that belong to page page_id
PageRange(page_id) ==
    (page_id_to_file_offset(page_id) + 1)..(page_id_to_file_offset(page_id) + PageLen)

\* C12: a write of frame A to page p that succeeds stores A's bytes in p and
\* changes no stored byte outside p; a read of p into frame B served right
\* after it and succeeding leaves B.data equal to A.data and the store as
\* it was.
C12_WriteThenReadRoundTrip ==
    [][/\ (WorkerServed /\ sched_last'.kind = "write" /\ sched_last'.result = "Ok") =>
            /\ sched_frames' = sched_frames
            /\ \A i \in PageRange(sched_last'.page_id) :
                  /\ i <= Len(sched_store')
                  /\ sched_store'[i] =
                        sched_frames[sched_last'.frame][i - page_id_to_file_offset(sched_last'.page_id)]
            /\ \A i \in 1..Len(sched_store) :
                  i \notin PageRange(sched_last'.page_id) => sched_store'[i] = sched_store[i]
       /\ (/\ WorkerServed
           /\ sched_last.kind = "write" /\ sched_last.result = "Ok"
           /\ sched_last'.kind = "read" /\ sched_last'.result = "Ok"
           /\ sched_last'.page_id = sched_last.page_id) =>
            /\ sched_frames'[sched_last'.frame] = sched_frames[sched_last.frame]
            /\ sched_frames'[sched_last'.frame] = sched_frames'[sched_last.frame]
            /\ sched_store' = sched_store
      ]_vars

\* C12 witness: both requests were awaited with Ok, frame2 was read after
\* frame1 was written, and frame2 now holds frame1's bytes, which are neither
\* zeros nor bytes the store held at the start
C12_Witness ==
    /\ sched_rx[1] = "Ok" /\ sched_rx[2] = "Ok"
    /\ sched_last.kind = "read" /\ sched_last.frame = 2 /\ sched_last.page_id = MaxPage
    /\ sched_frames[2] = sched_frames[1]
    /\ \E i \in 1..PageLen : sched_frames[2][i] # sched_frames[2][1]

\* C13: a read of a page that ends beyond the end of the store, when it
\* succeeds, fills the frame with zeros and writes one all-zero page into
\* the store at offset exactly page_id * PAGE_SIZE.
C13_EofReadWritesEmptyPageAtOffset ==
    [][(/\ WorkerServed
        /\ sched_last'.kind = "read" /\ sched_last'.result = "Ok"
        /\ page_id_to_file_offset(sched_last'.page_id) + PageLen > Len(sched_store)) =>
            /\ sched_frames'[sched_last'.frame] = EmptyPageBytes
            /\ sched_store' = WriteAt(sched_store,
                                      page_id_to_file_offset(sched_last'.page_id),
                                      EmptyPageBytes)
      ]_vars

\* the evictable nodes of a node map, split by history length
EvictableIn(nodes) == {f \in DOMAIN nodes : nodes[f].is_evictable}
InfIn(nodes, K) == {f \in EvictableIn(nodes) : Len(nodes[f].history) < K}
FullIn(nodes, K) == {f \in EvictableIn(nodes) : Len(nodes[f].history) = K}

\* this step is an evict() call that returns / a set_evictable call
EvictReturns == call'.op = "evict" /\ call'.outcome = "ok"
SetEvictableCalled == call'.op = "set_evictable"

\* C5: when every evictable node has a full K-entry history, evict() returns
\* the node with the largest backward K-distance, i.e. the one whose OLDEST
\* recorded timestamp (the K-th previous access) is smallest.
C5_EvictsMaxBackwardKDistance ==
    [][(EvictReturns /\ InfIn(nodes_store, k) = {} /\ FullIn(nodes_store, k) # {}) =>
          /\ call'.ret # None
          /\ call'.ret[1] \in FullIn(nodes_store, k)
          /\ \A g \in FullIn(nodes_store, k) :
                current_timestamp - Head(nodes_store[g].history)
                   <= current_timestamp - Head(nodes_store[call'.ret[1]].history)
      ]_vars

C7_EvictNoneIffNothingEvictable ==
    [][EvictReturns =>
          /\ (call'.ret = None) <=> (EvictableIn(nodes_store) = {})
          /\ call'.ret # None =>
                /\ call'.ret[1] \in DOMAIN nodes_store
                /\ nodes_store[call'.ret[1]].is_evictable
          /\ call'.ret = None =>
                /\ nodes_store' = nodes_store
                /\ size(nodes_store') = size(nodes_store)
      ]_vars

\* C7 witness: evict() returned None although nodes are tracked
C7_Witness ==
    /\ call.op = "evict"
    /\ call.outcome = "ok"
    /\ call.ret = None
    /\ DOMAIN nodes_store # {}

EvictReturnsVictim ==
    /\ call' # call
    /\ call'.op = "evict"
    /\ call'.outcome = "ok"
    /\ call'.ret # None

\* C2: a frame with at least one live guard is never flagged evictable in the
\* policy, and evict() never returns a frame that has a live guard.
C2_PinnedFrameNeverEvictable ==
    [][/\ \A f \in Frames :
             LiveGuardsIn(held', f) > 0 =>
                ~(Tracked(nodes_store', f) /\ nodes_store'[f].is_evictable)
       /\ EvictReturnsVictim => LiveGuards(call'.ret[1]) = 0
      ]_vars

\* C3: whenever no fetch is in its miss branch, every page table entry
\* page_id -> frame_id names a frame whose latest completed load was page_id.
C3_PageTableEntriesHoldTheirPage ==
    pt_lock = 0 =>
        \A p \in DOMAIN page_table : loaded[page_table[p]] = Some(p)

\* C4: a read guard on page p obtained after bytes were written to p under a
\* write guard and p's frame was then evicted shows exactly those bytes.
C4_WriteEvictReloadRoundTrip ==
    \A t \in Threads : \A i \in 1..Len(held[t]) :
        (held[t][i].mode = "read" /\ held[t][i].reload) =>
            frames[held[t][i].frame_id].data = written[held[t][i].page_id][1]

\* the (thread, index) pairs of the live guards
GuardIds == {ti \in Threads \X (1..MaxHeld) : ti[2] <= Len(held[ti[1]])}

\* the bytes page p must show: the last bytes written under a write guard,
\* else the page as it is on disk
Expected(p) == IF written[p] # None THEN written[p][1] ELSE disk[p]

C16_PinCountCountsLiveGuards ==
    \A f \in Frames :
        /\ frames[f].pin_count = LiveGuards(f)
        /\ frames[f].pin_count >= 0

\* C16 happens: two guards are live on one frame, whose pin_count is 2, and
\* another frame went back to pin_count 0 after its guard was dropped.
C16_Witness ==
    \E f \in Frames, g \in Frames :
        /\ LiveGuards(f) = 2 /\ frames[f].pin_count = 2
        /\ g # f /\ loaded[g] # None /\ frames[g].pin_count = 0

\* the frame ids in the free list / the frame ids the page table maps to
FreeFrames == {free_list[i] : i \in 1..Len(free_list)}
MappedFrames == {page_table[p] : p \in DOMAIN page_table}

\* C17: in every state no frame id is both an element of the free list and a
\* value in the page table.
C17_FreeListAndPageTableDisjoint ==
    FreeFrames \cap MappedFrames = {}

\* C17 happens: one frame of a two-frame pool has left the free list and is
\* installed in the page table while the other is still free.
C17_Witness ==
    /\ Len(free_list) = 1
    /\ Cardinality(MappedFrames) = 1
    /\ pool_size = 2

\* C18: a fetch whose scheduled read completed with an I/O error does not
\* return a guard: no live guard comes from a miss whose read failed.
C18_IoErrorReachesCaller ==
    \A ti \in GuardIds : ~held[ti[1]][ti[2]].io_error

\* thread t's fetch panics in this step: at the page table lock, asking for
\* an unmapped page / in the miss branch, asking for a frame
MissPanicsAtLookup(t) ==
    /\ pc[t] = "idle" /\ pc'[t] = "unwinding" /\ held' = held
    /\ cur'[t].page_id \notin DOMAIN page_table
MissPanicsAtGetFrame(t) == pc[t] = "get_frame" /\ pc'[t] = "unwinding"

\* a miss could obtain a frame: the free list is non-empty or a frame that was
\* installed has pin_count 0
FrameObtainable ==
    \/ free_list # <<>>
    \/ \E f \in MappedFrames : frames[f].pin_count = 0

\* C19: a fetch miss panics only when the free list is empty, the policy has
\* no evictable frame and every frame is pinned, and then it changes neither
\* the page table nor the free list nor the policy; and no miss panics while
\* the free list is non-empty or an installed frame has pin_count 0.
C19_MissFailsExactlyWhenExhausted ==
    [][\A t \in Threads :
          /\ MissPanicsAtGetFrame(t) =>
                /\ free_list = <<>>
                /\ \A f \in Frames : frames[f].pin_count > 0
                /\ \A f \in Frames :
                      ~(Tracked(nodes_store, f) /\ nodes_store[f].is_evictable)
                /\ page_table' = page_table
                /\ free_list' = free_list
                /\ nodes_store' = nodes_store
          /\ (MissPanicsAtGetFrame(t) \/ MissPanicsAtLookup(t)) => ~FrameObtainable
      ]_vars

\* C20: when the read for a new page is scheduled into a frame that was
\* obtained by eviction and is dirty, the frame's bytes have been written to
\* the evicted page's place in the store.
C20_DirtyFrameWrittenBackBeforeReuse ==
    [][\A t \in Threads : \A p \in Pages :
          (/\ pc[t] = "schedule" /\ pc'[t] = "parked"
           /\ loaded[cur[t].frame_id[1]] = Some(p)
           /\ p # cur[t].page_id
           /\ frames[cur[t].frame_id[1]].is_dirty)
          => disk[p] = frames[cur[t].frame_id[1]].data
      ]_vars

\* C21: no thread holds the page table lock while its fetch submits the
\* read, waits for the completion or constructs the guard.
C21_PageTableLockReleasedBeforeIo ==
    \A t \in Threads :
        pc[t] \in {"schedule", "parked", "record", "set_evictable", "pin"} =>
            pt_lock # t

\* C22: every request the worker dequeues, whose receiver the client still
\* holds, gets a result (Ok or Err) on its channel in that step, and the
\* worker keeps running whatever the store answered.
C22_EveryRequestAnsweredWorkerSurvives ==
    [][(WorkerServed /\ sched_rx[sched_last'.id] # "dropped") =>
          /\ sched_result'[sched_last'.id] \in {"Ok", "Err"}
          /\ sched_worker' = "running"
      ]_vars

\* C23: a request enters the queue only while the worker is running: once
\* the worker has terminated no schedule_read / schedule_write enqueues.
C23_NoEnqueueAfterWorkerTerminated ==
    [][Len(sched_queue') > Len(sched_queue) => sched_worker = "running"]_vars

\* this step is a record_access call
RecordAccessCalled ==
    /\ call'.op = "record_access"
    /\ current_timestamp' = current_timestamp + 1

StoredTimestamps(nodes) ==
    UNION {{nodes[f].history[i] : i \in 1..Len(nodes[f].history)} : f \in DOMAIN nodes}

\* the threads between next_timestamp() and the push of a record_access
Recording == {t \in Threads : pol[t].op = "record_access"}

\* C25: the timestamp a record_access call obtains is larger than every
\* timestamp recorded before and differs from the timestamp of every other
\* call in progress, no timestamp is stored twice, and the value evict() read
\* as current_timestamp is strictly greater than every timestamp stored in a
\* history when evict() scans the nodes.
C25_TimestampsStrictlyIncrease ==
    [][\A t \in Threads :
          /\ (pol[t].op = "idle" /\ pol'[t].op = "record_access") =>
                /\ \A ts \in StoredTimestamps(nodes_store) : pol'[t].now > ts
                /\ \A u \in Recording : pol'[t].now > pol[u].now
          /\ (pol[t].op = "record_access" /\ pol'[t].op = "idle" /\ ~poisoned) =>
                pol[t].now \notin StoredTimestamps(nodes_store)
          /\ (pol[t].op = "evict_scan" /\ pol'[t].op # "evict_scan" /\ ~poisoned) =>
                \A ts \in StoredTimestamps(nodes_store) : pol[t].now > ts
      ]_vars

\* C26: record_access(f) on an untracked frame creates a non-evictable node
\* for f whose history is the one new timestamp; on a tracked frame it leaves
\* the node's evictability flag unchanged; in both cases size() and every
\* other node are unchanged.
C26_RecordAccessFrameEffect ==
    [][RecordAccessCalled =>
          LET f == call'.frame_id
          IN  /\ DOMAIN nodes_store' = DOMAIN nodes_store \cup {f}
              /\ ~Tracked(nodes_store, f) =>
                    /\ ~nodes_store'[f].is_evictable
                    /\ nodes_store'[f].history = <<current_timestamp>>
              /\ Tracked(nodes_store, f) =>
                    nodes_store'[f].is_evictable = nodes_store[f].is_evictable
              /\ size(nodes_store') = size(nodes_store)
              /\ \A g \in DOMAIN nodes_store \ {f} : nodes_store'[g] = nodes_store[g]
      ]_vars

\* C26 happens: record_access has just been called on a frame that is tracked
\* and evictable, beside another evictable node and a node created by an
\* earlier record_access that is still non-evictable.
C26_Witness ==
    /\ call.op = "record_access"
    /\ Tracked(nodes_store, call.frame_id)
    /\ nodes_store[call.frame_id].is_evictable
    /\ size(nodes_store) = 2
    /\ Cardinality(DOMAIN nodes_store) = 3

\* C27: an evict() that returns f removes exactly f's node: f is untracked
\* afterwards, size() is one less and every other node is unchanged; evict()
\* only ever returns a frame that is tracked and flagged evictable, a flag
\* only set_evictable on a tracked frame can give, and a record_access on the
\* untracked f starts a fresh one-entry history.
C27_EvictRemovesVictimNode ==
    [][/\ EvictReturnsVictim =>
             LET f == call'.ret[1]
             IN  /\ Tracked(nodes_store, f) /\ nodes_store[f].is_evictable
                 /\ ~Tracked(nodes_store', f)
                 /\ size(nodes_store') = size(nodes_store) - 1
                 /\ DOMAIN nodes_store' = DOMAIN nodes_store \ {f}
                 /\ \A g \in DOMAIN nodes_store' : nodes_store'[g] = nodes_store[g]
       /\ SetEvictableCalled => DOMAIN nodes_store' = DOMAIN nodes_store
       /\ (RecordAccessCalled /\ ~Tracked(nodes_store, call'.frame_id)) =>
             /\ Len(nodes_store'[call'.frame_id].history) = 1
             /\ ~nodes_store'[call'.frame_id].is_evictable
      ]_vars

\* C27 happens: evict() has just returned a frame that is no longer tracked
\* while another evictable node and a non-evictable node stay in the policy.
C27_Witness ==
    /\ call.op = "evict"
    /\ call.ret # None
    /\ ~Tracked(nodes_store, call.ret[1])
    /\ size(nodes_store) = 1
    /\ Cardinality(DOMAIN nodes_store) = 2

\* this step is thread t dropping its guard number i
Drops(t, i) ==
    /\ i <= Len(held[t])
    /\ held'[t] = RemoveAt(held[t], i)
    /\ Len(held'[t]) < Len(held[t])

\* C28: dropping a guard on frame f decrements f's pin_count by one; if the
\* count reaches zero the frame is marked evictable in the policy, and if
\* other guards remain the policy is not touched and f's flag is false.
C28_DropDecrementsAndMarksEvictableAtZero ==
    [][\A t \in Threads : \A i \in 1..MaxHeld :
          Drops(t, i) =>
             LET f == held[t][i].frame_id
             IN  /\ frames'[f].pin_count = frames[f].pin_count - 1
                 /\ frames'[f].pin_count = 0 =>
                       Tracked(nodes_store', f) /\ nodes_store'[f].is_evictable
                 /\ frames'[f].pin_count > 0 =>
                       /\ nodes_store' = nodes_store
                       /\ ~(Tracked(nodes_store', f) /\ nodes_store'[f].is_evictable)
      ]_vars

\* this step completes a write guard on frame f
WriteGuardAcquired(f) ==
    \E t \in Threads :
        /\ pc[t] = "pin" /\ pc'[t] = "idle"
        /\ cur[t].mode = "write"
        /\ cur[t].frame_id = Some(f)

\* C29: a frame's is_dirty is true after a write guard on it is acquired,
\* changes in no other step (acquiring or dropping a read guard, dropping a
\* write guard, eviction, the load of another page), and once true stays true.
C29_DirtyFlagSetOnlyByWriteGuard ==
    [][\A f \in Frames :
          /\ WriteGuardAcquired(f) => frames'[f].is_dirty
          /\ frames'[f].is_dirty # frames[f].is_dirty => WriteGuardAcquired(f)
          /\ frames[f].is_dirty => frames'[f].is_dirty
      ]_vars

\* C29 happens: a frame that was dirtied by a write guard has since been
\* evicted and reloaded with another page, is held through a read guard only,
\* and is still dirty.
C29_Witness ==
    \E t \in Threads :
        /\ Len(held[t]) = 1
        /\ held[t][1].mode = "read"
        /\ LiveGuards(held[t][1].frame_id) = 1
        /\ frames[held[t][1].frame_id].is_dirty
        /\ loaded[held[t][1].frame_id] = Some(held[t][1].page_id)
        /\ \E p \in Pages : p # held[t][1].page_id /\ written[p] # None /\ evicted[p]

\* C30: the page table holds at most pool_size entries and no two page ids
\* map to the same frame id.
C30_PageTableWithinCapacity ==
    /\ Cardinality(DOMAIN page_table) <= pool_size
    /\ \A p \in DOMAIN page_table : \A q \in DOMAIN page_table :
          page_table[p] = page_table[q] => p = q

\* C31: the set_evictable(frame_id, false) call of a guard constructor and the
\* set_evictable(frame_id, true) call of a guard drop always find the frame's
\* node: no set_evictable call made through the pool panics with "frame not
\* found", in any interleaving of hit-path and evicting miss-path fetches.
C31_GuardSetEvictableFindsNode ==
    ~(call.op = "set_evictable" /\ call.outcome = "panic")

\* C32: under any interleaving of concurrent record_access calls every node's
\* history is strictly increasing from front to back, so that the back entry
\* is the node's most recent access and the front entry its oldest.
C32_HistoryStrictlyIncreasing ==
    \A f \in DOMAIN nodes_store :
        \A i \in 1..(Len(nodes_store[f].history) - 1) :
            nodes_store[f].history[i] < nodes_store[f].history[i + 1]

\* a fetch of thread t is in progress / has returned its guard
Fetching(t) == pc[t] \notin {"idle", "unwinding"}

\* C33: if at most pool_size distinct pages are pinned at any time, the store
\* does not fail and every thread eventually drops each guard it obtains,
\* every get_page_read / get_page_write call in progress eventually returns
\* its guard.
C33_FetchEventuallyReturnsGuard ==
    ([](Cardinality(PinnedPages) <= pool_size)) =>
        \A t \in Threads : Fetching(t) ~> (pc[t] = "idle")

\* C34: a request whose completion receiver the caller dropped without recv
\* is still performed by the worker when the store succeeds (a write stores
\* the frame's bytes in its page), and the worker keeps running afterwards,
\* so that every other queued and later request is serviced and answered.
C34_DroppedReceiverRequestStillServed ==
    [][(/\ WorkerServed
        /\ sched_rx[sched_last'.id] = "dropped"
        /\ sched_last'.result = "Ok") =>
          /\ sched_last'.kind = "write" =>
                \A i \in PageRange(sched_last'.page_id) :
                   /\ i <= Len(sched_store')
                   /\ sched_store'[i] =
                         sched_frames[sched_last'.frame][i - page_id_to_file_offset(sched_last'.page_id)]
          /\ sched_worker' = "running"
      ]_vars

\* the ids of the requests in a queue
QueuedIds(queue) == {queue[i].id : i \in 1..Len(queue)}

\* C35: when the worker takes a request, it takes the most recently submitted
\* of the pending ones (last in, first out) and removes exactly that request
\* from the queue; a request leaves the queue in no other step, is queued at
\* most once at a time, and is never queued again once it was taken; and
\* every queued request is eventually taken.
C35_WorkerTakesNewestRequestOnce ==
    /\ [][/\ WorkerServed =>
                /\ sched_last'.id \in QueuedIds(sched_queue)
                /\ \A id \in QueuedIds(sched_queue) : id <= sched_last'.id
                /\ QueuedIds(sched_queue') = QueuedIds(sched_queue) \ {sched_last'.id}
                /\ Len(sched_queue') = Len(sched_queue) - 1
          /\ ~WorkerServed =>
                /\ QueuedIds(sched_queue) \subseteq QueuedIds(sched_queue')
                /\ \A id \in QueuedIds(sched_queue') \ QueuedIds(sched_queue) :
                      /\ id # sched_last.id
                      /\ sched_result[id] = "none"
                      /\ \A older \in QueuedIds(sched_queue) : older < id
          /\ Cardinality(QueuedIds(sched_queue')) = Len(sched_queue')
         ]_vars
    /\ \A r \in Requests :
          (r \in QueuedIds(sched_queue)) ~> (r \notin QueuedIds(sched_queue))

====
